---- MODULE Spec2Model ----
(***************************************************************************)
(* A model of the DHT11 reader of dht11_takemoto_pigpio.py: the DHT11      *)
(* class (constructor, read, the four private pipeline steps, close) and   *)
(* the polling program under `if __name__ == '__main__'`.                  *)
(*                                                                         *)
(* Conventions.                                                            *)
(*  - Python lists are sequences; Python index k is index k+1 here.        *)
(*  - A real value v that the code computes as n + m/10 is held as the     *)
(*    integer 10*v (tenths), so 25.0 is 250.  halfway, which the code      *)
(*    computes with a true division by 2, is held doubled.                 *)
(*  - The sensor, the line and the clock are the environment: `line` is    *)
(*    what successive pi.read calls return, `now` is time.time() in        *)
(*    milliseconds.                                                        *)
(***************************************************************************)
EXTENDS Integers, Sequences, FiniteSets, TLC

VARIABLES
    pc,                 \* position of the program
    pin,                \* DHT11.__pin
    pi,                 \* DHT11.__pi: "none", "connected", "unconnected", "stopped"
    mode,               \* GPIO mode of the pin: "unset", "output", "input"
    pull,               \* pull resistor of the pin: "off", "up"
    calls,              \* backend calls made by the read() call in progress
    line,               \* environment: what the line returns when polled
    now,                \* environment: the clock, in ms
    start,              \* __collect_input: start
    data,               \* __collect_input / read: data
    unchanged_count,    \* __collect_input: unchanged_count
    last,               \* __collect_input: last
    state,              \* __parse_data_pull_up_lengths: state
    lengths,            \* __parse_data_pull_up_lengths: lengths
    current_length,     \* __parse_data_pull_up_lengths: current_length
    idx,                \* __parse_data_pull_up_lengths: number of samples consumed
    pull_up_lengths,    \* read: pull_up_lengths
    bits,               \* read: bits
    the_bytes,          \* read: the_bytes
    checksum,           \* read: checksum
    result,             \* what the read() call yields: a reading or an exception
    reads,              \* number of read() calls issued by the polling loop
    closes              \* number of close() calls

vars == <<pc, pin, pi, mode, pull, calls, line, now, start, data,
          unchanged_count, last, state, lengths, current_length, idx,
          pull_up_lengths, bits, the_bytes, checksum, result, reads, closes>>

(***************************************************************************)
(* Program constants.                                                      *)
(***************************************************************************)
STATE_INIT_PULL_DOWN == 1
STATE_INIT_PULL_UP == 2
STATE_DATA_FIRST_PULL_DOWN == 3
STATE_DATA_PULL_UP == 4
STATE_DATA_PULL_DOWN == 5

max_unchanged_count == 100
\* the ceiling 0.1 s of the sampling loop, in ms
TimeCeiling == 100
\* the number of pulse lengths read() insists on
PulseCount == 40
\* initial values of shortest_pull_up and longest_pull_up
ShortestSentinel == 1000
LongestSentinel == 0
\* the pin of the polling program
PinNumber == 26
\* initial value of last in the sampling loop
LastUnset == -1

(***************************************************************************)
(* Bounds of the model.                                                    *)
(***************************************************************************)
\* the polling loop issues at most this many read() calls
MaxReads == 2
\* frames of 0..MaxPulses data pulses are offered to read()
MaxPulses == 41
\* every binary sequence of at most this length is offered to read() as a capture
MaxNoise == 5
\* the clock may expire after each of the first MaxEarlyDeadline samples
MaxEarlyDeadline == 3
\* every nonempty binary sequence of at most this length is parsed step by step
MaxRawLen == 9
\* the sampled line is made of at most this many runs before its tail
MaxRuns == 2
\* ms by which the clock may advance during one iteration of the sampling loop
ClockStep == 50
\* from this many samples on, the clock advances in every iteration
MaxStall == 310
\* sample counts of a short and of a long data pulse of a frame
ShortPulse == 2
LongPulse == 5
\* a sample count the clock passes the ceiling at, beyond every frame
LateDeadline == 400

Bit == {0, 1}

(***************************************************************************)
(* Generic helpers.                                                        *)
(***************************************************************************)
Repeat(v, n) == [i \in 1..n |-> v]

RECURSIVE Flatten(_)
Flatten(ss) == IF ss = <<>> THEN <<>> ELSE Head(ss) \o Flatten(Tail(ss))

SeqsUpTo(S, n) == UNION {[1..k -> S] : k \in 0..n}

(***************************************************************************)
(* The environment: the line as successive pi.read calls see it.  A line   *)
(* is a finite script of samples followed by a tail: held high (the        *)
(* pull-up), held low, or toggling at every sample.                        *)
(***************************************************************************)
Tails == {"high", "low", "toggle"}

Line(script, tail) == [script |-> script, tail |-> tail]

\* pi.read(pin) when k samples were taken before
GpioRead(ln, k) ==
    IF k < Len(ln.script) THEN ln.script[k + 1]
    ELSE IF ln.tail = "high" THEN 1
    ELSE IF ln.tail = "low" THEN 0
    ELSE k % 2

QuietLine == Line(<<>>, "high")

(***************************************************************************)
(* __collect_input (lines 77-95).                                          *)
(***************************************************************************)
\* lines 78-82: the locals before the loop
CollectLocals == [data |-> <<>>, unchanged_count |-> 0, last |-> LastUnset,
                  running |-> TRUE]

\* CollectBody without lines 91-92: only the clock ends the loop
CollectBody_TimeOnly(c, current, elapsed) ==
    LET d == Append(c.data, current) IN
    IF c.last # current
    THEN [data |-> d, unchanged_count |-> 0, last |-> current,
          running |-> ~(elapsed > TimeCeiling)]
    ELSE [data |-> d, unchanged_count |-> c.unchanged_count + 1,
          last |-> c.last, running |-> ~(elapsed > TimeCeiling)]

\* CollectBody with line 91 testing unchanged_count >= max_unchanged_count
CollectBody_StopsEarly(c, current, elapsed) ==
    LET d == Append(c.data, current) IN
    IF c.last # current
    THEN [data |-> d, unchanged_count |-> 0, last |-> current,
          running |-> ~(elapsed > TimeCeiling)]
    ELSE IF c.unchanged_count + 1 >= max_unchanged_count
         THEN [data |-> d, unchanged_count |-> c.unchanged_count + 1,
               last |-> c.last, running |-> FALSE]
         ELSE [data |-> d, unchanged_count |-> c.unchanged_count + 1,
               last |-> c.last, running |-> ~(elapsed > TimeCeiling)]

\* lines 84-94: one iteration of the loop; current is the sample read at
\* line 84, elapsed is time.time() - start as line 93 evaluates it
CollectBody(c, current, elapsed) ==
    LET d == Append(c.data, current) IN
    IF c.last # current
    THEN [data |-> d, unchanged_count |-> 0, last |-> current,
          running |-> ~(elapsed > TimeCeiling)]
    ELSE IF c.unchanged_count + 1 > max_unchanged_count
         THEN [data |-> d, unchanged_count |-> c.unchanged_count + 1,
               last |-> c.last, running |-> FALSE]
         ELSE [data |-> d, unchanged_count |-> c.unchanged_count + 1,
               last |-> c.last, running |-> ~(elapsed > TimeCeiling)]

\* line 93 under a clock that reads start until `deadline` samples were
\* taken and beyond the ceiling from then on: elapsed after sample k
ElapsedAt(k, deadline) == IF k >= deadline THEN TimeCeiling + 1 ELSE 0

\* lines 83-94: iterations lo..hi of the loop, which stops at the first
\* break (the range is halved to keep the evaluation shallow)
RECURSIVE CollectLoop(_, _, _, _, _)
CollectLoop(c, ln, deadline, lo, hi) ==
    IF lo > hi THEN c
    ELSE IF lo = hi
    THEN CollectBody(c, GpioRead(ln, lo - 1), ElapsedAt(lo, deadline))
    ELSE LET mid == (lo + hi) \div 2
             half == CollectLoop(c, ln, deadline, lo, mid)
         IN  IF ~half.running THEN half ELSE CollectLoop(half, ln, deadline, mid + 1, hi)

\* the loop has ended by sample `deadline` at the latest
collect_input(ln, deadline) ==
    CollectLoop(CollectLocals, ln, deadline, 1, deadline).data

(***************************************************************************)
(* __parse_data_pull_up_lengths (lines 97-142).                            *)
(***************************************************************************)
\* ParseLocals with line 104 starting the machine in STATE_DATA_PULL_UP
ParseLocals_SkipsInit ==
    [state |-> STATE_DATA_PULL_UP, lengths |-> <<>>, current_length |-> 0]

\* lines 104-106
ParseLocals == [state |-> STATE_INIT_PULL_DOWN, lengths |-> <<>>, current_length |-> 0]

\* ParseSample with line 138 going back to STATE_INIT_PULL_DOWN after a pulse
ParseSample_Restarts(p, current) ==
    LET n == p.current_length + 1 IN
    IF p.state = STATE_INIT_PULL_DOWN
    THEN [p EXCEPT !.current_length = n,
                   !.state = IF current = 0 THEN STATE_INIT_PULL_UP ELSE @]
    ELSE IF p.state = STATE_INIT_PULL_UP
    THEN [p EXCEPT !.current_length = n,
                   !.state = IF current = 1 THEN STATE_DATA_FIRST_PULL_DOWN ELSE @]
    ELSE IF p.state = STATE_DATA_FIRST_PULL_DOWN
    THEN [p EXCEPT !.current_length = n,
                   !.state = IF current = 0 THEN STATE_DATA_PULL_UP ELSE @]
    ELSE IF p.state = STATE_DATA_PULL_UP
    THEN IF current = 1
         THEN [state |-> STATE_DATA_PULL_DOWN, lengths |-> p.lengths, current_length |-> 0]
         ELSE [p EXCEPT !.current_length = n]
    ELSE IF current = 0
    THEN [state |-> STATE_INIT_PULL_DOWN, lengths |-> Append(p.lengths, n),
          current_length |-> n]
    ELSE [p EXCEPT !.current_length = n]

\* ParseSample with line 123 left out: STATE_DATA_FIRST_PULL_DOWN is left on
\* any sample
ParseSample_AdvancesEarly(p, current) ==
    LET n == p.current_length + 1 IN
    IF p.state = STATE_INIT_PULL_DOWN
    THEN [p EXCEPT !.current_length = n,
                   !.state = IF current = 0 THEN STATE_INIT_PULL_UP ELSE @]
    ELSE IF p.state = STATE_INIT_PULL_UP
    THEN [p EXCEPT !.current_length = n,
                   !.state = IF current = 1 THEN STATE_DATA_FIRST_PULL_DOWN ELSE @]
    ELSE IF p.state = STATE_DATA_FIRST_PULL_DOWN
    THEN [p EXCEPT !.current_length = n, !.state = STATE_DATA_PULL_UP]
    ELSE IF p.state = STATE_DATA_PULL_UP
    THEN IF current = 1
         THEN [state |-> STATE_DATA_PULL_DOWN, lengths |-> p.lengths, current_length |-> 0]
         ELSE [p EXCEPT !.current_length = n]
    ELSE IF current = 0
    THEN [state |-> STATE_DATA_PULL_UP, lengths |-> Append(p.lengths, n),
          current_length |-> n]
    ELSE [p EXCEPT !.current_length = n]

\* ParseSample without line 130: the counter is not reset at the start of a pulse
ParseSample_NoReset(p, current) ==
    LET n == p.current_length + 1 IN
    IF p.state = STATE_INIT_PULL_DOWN
    THEN [p EXCEPT !.current_length = n,
                   !.state = IF current = 0 THEN STATE_INIT_PULL_UP ELSE @]
    ELSE IF p.state = STATE_INIT_PULL_UP
    THEN [p EXCEPT !.current_length = n,
                   !.state = IF current = 1 THEN STATE_DATA_FIRST_PULL_DOWN ELSE @]
    ELSE IF p.state = STATE_DATA_FIRST_PULL_DOWN
    THEN [p EXCEPT !.current_length = n,
                   !.state = IF current = 0 THEN STATE_DATA_PULL_UP ELSE @]
    ELSE IF p.state = STATE_DATA_PULL_UP
    THEN [p EXCEPT !.current_length = n,
                   !.state = IF current = 1 THEN STATE_DATA_PULL_DOWN ELSE @]
    ELSE IF current = 0
    THEN [state |-> STATE_DATA_PULL_UP, lengths |-> Append(p.lengths, n),
          current_length |-> n]
    ELSE [p EXCEPT !.current_length = n]

\* lines 108-141: one iteration of the loop on sample current
ParseSample(p, current) ==
    LET n == p.current_length + 1 IN
    IF p.state = STATE_INIT_PULL_DOWN
    THEN IF current = 0
         THEN [state |-> STATE_INIT_PULL_UP, lengths |-> p.lengths, current_length |-> n]
         ELSE [p EXCEPT !.current_length = n]
    ELSE IF p.state = STATE_INIT_PULL_UP
    THEN IF current = 1
         THEN [state |-> STATE_DATA_FIRST_PULL_DOWN, lengths |-> p.lengths, current_length |-> n]
         ELSE [p EXCEPT !.current_length = n]
    ELSE IF p.state = STATE_DATA_FIRST_PULL_DOWN
    THEN IF current = 0
         THEN [state |-> STATE_DATA_PULL_UP, lengths |-> p.lengths, current_length |-> n]
         ELSE [p EXCEPT !.current_length = n]
    ELSE IF p.state = STATE_DATA_PULL_UP
    THEN IF current = 1
         THEN [state |-> STATE_DATA_PULL_DOWN, lengths |-> p.lengths, current_length |-> 0]
         ELSE [p EXCEPT !.current_length = n]
    ELSE IF p.state = STATE_DATA_PULL_DOWN
    THEN IF current = 0
         THEN [state |-> STATE_DATA_PULL_UP, lengths |-> Append(p.lengths, n),
               current_length |-> n]
         ELSE [p EXCEPT !.current_length = n]
    ELSE [p EXCEPT !.current_length = n]

\* line 107: the loop over data[lo..hi].  The range is halved to keep the
\* evaluation shallow; the test on half.state, which is never 0, makes the
\* first half be evaluated before the second
RECURSIVE ParseLoop(_, _, _, _)
ParseLoop(p, d, lo, hi) ==
    IF lo > hi THEN p
    ELSE IF lo = hi THEN ParseSample(p, d[lo])
    ELSE LET mid == (lo + hi) \div 2
             half == ParseLoop(p, d, lo, mid)
         IN  IF half.state = 0 THEN half ELSE ParseLoop(half, d, mid + 1, hi)

parse_data_pull_up_lengths(d) == ParseLoop(ParseLocals, d, 1, Len(d)).lengths

(***************************************************************************)
(* __calculate_bits (lines 144-160).                                       *)
(***************************************************************************)
\* lines 147-152: the running minimum from the sentinel
RECURSIVE ShortestFrom(_, _, _)
ShortestFrom(ls, i, shortest) ==
    IF i > Len(ls) THEN shortest
    ELSE ShortestFrom(ls, i + 1, IF ls[i] < shortest THEN ls[i] ELSE shortest)

\* lines 147-152: the running maximum from the sentinel
RECURSIVE LongestFrom(_, _, _)
LongestFrom(ls, i, longest) ==
    IF i > Len(ls) THEN longest
    ELSE LongestFrom(ls, i + 1, IF ls[i] > longest THEN ls[i] ELSE longest)

shortest_pull_up(ls) == ShortestFrom(ls, 1, ShortestSentinel)
longest_pull_up(ls) == LongestFrom(ls, 1, LongestSentinel)

\* line 153, doubled: 2 * (shortest + (longest - shortest) / 2)
halfway2(ls) ==
    2 * shortest_pull_up(ls) + (longest_pull_up(ls) - shortest_pull_up(ls))

\* calculate_bits with line 157 testing pull_up_lengths[i] >= halfway
calculate_bits_AtOrAbove(ls) ==
    LET halfway == halfway2(ls) IN [i \in 1..Len(ls) |-> 2 * ls[i] >= halfway]

\* lines 154-160
calculate_bits(ls) ==
    LET halfway == halfway2(ls) IN [i \in 1..Len(ls) |-> 2 * ls[i] > halfway]

(***************************************************************************)
(* __bits_to_bytes (lines 162-175).                                        *)
(***************************************************************************)
\* PackFrom with the bits of a byte taken least significant first
RECURSIVE PackFrom_LsbFirst(_, _, _, _)
PackFrom_LsbFirst(bs, i, byte_d, out) ==
    IF i > Len(bs) THEN out
    ELSE LET shifted == byte_d + (IF bs[i] THEN 2 ^ ((i - 1) % 8) ELSE 0) IN
         IF i % 8 = 0
         THEN PackFrom_LsbFirst(bs, i + 1, 0, Append(out, shifted))
         ELSE PackFrom_LsbFirst(bs, i + 1, shifted, out)

\* lines 166-174: the loop from bit i on, with accumulator byte_d
RECURSIVE PackFrom(_, _, _, _)
PackFrom(bs, i, byte_d, out) ==
    IF i > Len(bs) THEN out
    ELSE LET shifted == 2 * byte_d + (IF bs[i] THEN 1 ELSE 0) IN
         IF i % 8 = 0
         THEN PackFrom(bs, i + 1, 0, Append(out, shifted))
         ELSE PackFrom(bs, i + 1, shifted, out)

bits_to_bytes(bs) == PackFrom(bs, 1, 0, <<>>)

(***************************************************************************)
(* __calculate_checksum (lines 177-179).                                   *)
(***************************************************************************)
calculate_checksum(bytes0) ==
    (bytes0[1] % 256) + (bytes0[2] % 256) + (bytes0[3] % 256) + (bytes0[4] % 256)

(***************************************************************************)
(* What the sensor puts on the line.  A frame is the response of the       *)
(* sensor to the wake-up pulse: the line still high, the response low, the *)
(* acknowledgement high, then for every data bit a low gap and a high      *)
(* pulse (short for 0, long for 1), and the closing low.                   *)
(***************************************************************************)
\* the 8 bits of byte b, most significant first
BitsOfByte(b) == [j \in 1..8 |-> (b \div (2 ^ (8 - j))) % 2 = 1]

BitsOfBytes(bs) == Flatten([k \in 1..Len(bs) |-> BitsOfByte(bs[k])])

PulsesOfBits(bs) == [i \in 1..Len(bs) |-> IF bs[i] THEN LongPulse ELSE ShortPulse]

\* the samples of a frame whose data pulses have the lengths ps
FrameScript(ps) ==
    <<1, 0, 0, 1, 1>>
        \o Flatten([i \in 1..Len(ps) |-> <<0>> \o Repeat(1, ps[i])])
        \o <<0>>

FrameOfBytes(bs) == Line(FrameScript(PulsesOfBits(BitsOfBytes(bs))), "high")

\* a frame of n pulses, alternately short and long
FrameOfCount(n) ==
    Line(FrameScript([i \in 1..n |-> IF i % 2 = 0 THEN LongPulse ELSE ShortPulse]),
         "high")

\* byte values of the frames offered to the polling program
FrameByteVals == {0, 85, 128}

\* values of the four data bytes of the frames offered to the validation step
ValidateByteVals == {0, 25, 60, 128}

\* the frames offered to the validation step: four data bytes, and a fifth
\* byte that is the low 8 bits of their sum, or one more, or one less
ValidateFrames ==
    {<<b[1], b[2], b[3], b[4], (b[1] + b[2] + b[3] + b[4] + d) % 256>> :
        b \in [1..4 -> ValidateByteVals], d \in {0, 1, 255}}

\* the lines read() may meet in the polling program
ReadLines ==
    {FrameOfBytes(bs) : bs \in [1..5 -> FrameByteVals]}
        \cup {FrameOfCount(n) : n \in 0..MaxPulses}
        \cup {Line(sc, t) : sc \in SeqsUpTo(Bit, MaxNoise), t \in Tails}

\* the sample counts after which the clock may pass the ceiling
Deadlines == (1..MaxEarlyDeadline) \cup {LateDeadline}

(***************************************************************************)
(* The results of read().                                                  *)
(***************************************************************************)
NoValue == -1

NoResult == [kind |-> "none", temperature |-> NoValue, humidity |-> NoValue,
             checksum |-> NoValue]

Raised(kind) == [kind |-> kind, temperature |-> NoValue, humidity |-> NoValue,
                 checksum |-> NoValue]

\* lines 73-75: the tuple read() returns, the two reals in tenths
Reading(bs, sum) ==
    [kind |-> "reading", temperature |-> 10 * bs[3] + bs[4],
     humidity |-> 10 * bs[1] + bs[2], checksum |-> sum]

\* consecutive pi.read calls are logged as one entry
LogCall(log, op) ==
    IF op = "read" /\ log # <<>> /\ log[Len(log)] = "read" THEN log
    ELSE Append(log, op)

\* lines 54-60 as the backend sees them
WakeCalls == <<"set_mode_output", "write_1", "sleep_settle", "write_0",
               "sleep_trigger", "set_mode_input", "set_pull_up">>

(***************************************************************************)
(* Frame conditions.                                                       *)
(***************************************************************************)
collectVars == <<start, unchanged_count, last>>
parseVars == <<state, lengths, current_length, idx>>
readVars == <<data, pull_up_lengths, bits, the_bytes, checksum>>
envVars == <<line, now>>
objectVars == <<pin, pi>>
gpioVars == <<mode, pull>>
mainVars == <<reads, closes>>

\* the locals of read() are gone when it returns or raises
DiscardLocals ==
    /\ data' = <<>>
    /\ pull_up_lengths' = <<>>
    /\ bits' = <<>>
    /\ the_bytes' = <<>>
    /\ checksum' = 0

(***************************************************************************)
(* The initial state: the program before line 186.                         *)
(***************************************************************************)
Init ==
    /\ pc = "main_construct"
    /\ pin = 0
    /\ pi = "none"
    /\ mode = "unset"
    /\ pull = "off"
    /\ calls = <<>>
    /\ line = QuietLine
    /\ now = 0
    /\ start = 0
    /\ data = <<>>
    /\ unchanged_count = 0
    /\ last = LastUnset
    /\ state = STATE_INIT_PULL_DOWN
    /\ lengths = <<>>
    /\ current_length = 0
    /\ idx = 0
    /\ pull_up_lengths = <<>>
    /\ bits = <<>>
    /\ the_bytes = <<>>
    /\ checksum = 0
    /\ result = NoResult
    /\ reads = 0
    /\ closes = 0

(***************************************************************************)
(* DHT11.__init__ (lines 46-50), called at line 186.                       *)
(***************************************************************************)
\* Construct without the test of line 49
Construct_NoCheck ==
    /\ pc = "main_construct"
    /\ \E connected \in BOOLEAN :
        /\ pin' = PinNumber
        /\ pi' = IF connected THEN "connected" ELSE "unconnected"
        /\ result' = result
        /\ pc' = "main_try"
    /\ UNCHANGED <<gpioVars, calls, envVars, collectVars, parseVars, readVars, mainVars>>

\* connected is what pigpio.pi().connected reports
Construct ==
    /\ pc = "main_construct"
    /\ \E connected \in BOOLEAN :
        /\ pin' = PinNumber
        /\ pi' = IF connected THEN "connected" ELSE "unconnected"
        /\ IF ~connected
           THEN /\ result' = Raised("RuntimeError")
                /\ pc' = "setup_error"
           ELSE /\ result' = result
                /\ pc' = "main_try"
    /\ UNCHANGED <<gpioVars, calls, envVars, collectVars, parseVars, readVars, mainVars>>

(***************************************************************************)
(* The polling loop calls read() (line 191).                               *)
(***************************************************************************)
ReadCall ==
    /\ pc = "main_try"
    /\ reads < MaxReads
    /\ reads' = reads + 1
    /\ calls' = <<>>
    /\ result' = NoResult
    /\ pc' = "set_mode_output"
    /\ UNCHANGED <<objectVars, gpioVars, envVars, collectVars, parseVars, readVars, closes>>

(***************************************************************************)
(* read(), lines 54-60: the wake-up protocol.                              *)
(***************************************************************************)
\* one backend call of the wake-up protocol that leaves mode and pull alone
WakeStep(at, op, next) ==
    /\ pc = at
    /\ calls' = LogCall(calls, op)
    /\ pc' = next
    /\ UNCHANGED <<objectVars, gpioVars, envVars, collectVars, parseVars, readVars,
                   result, mainVars>>

\* line 54
SetModeOutput ==
    /\ pc = "set_mode_output"
    /\ mode' = "output"
    /\ calls' = LogCall(calls, "set_mode_output")
    /\ pc' = "write_1"
    /\ UNCHANGED <<objectVars, pull, envVars, collectVars, parseVars, readVars,
                   result, mainVars>>

\* line 55
WriteHigh == WakeStep("write_1", "write_1", "sleep_settle")

\* line 56
SleepSettle == WakeStep("sleep_settle", "sleep_settle", "write_0")

\* line 57
WriteLow == WakeStep("write_0", "write_0", "sleep_trigger")

\* line 58
SleepTrigger == WakeStep("sleep_trigger", "sleep_trigger", "set_mode_input")

\* SetModeInput with line 59 left out
SetModeInput_Missing ==
    /\ pc = "set_mode_input"
    /\ pc' = "set_pull_up"
    /\ UNCHANGED <<objectVars, gpioVars, calls, envVars, collectVars, parseVars,
                   readVars, result, mainVars>>

\* line 59
SetModeInput ==
    /\ pc = "set_mode_input"
    /\ mode' = "input"
    /\ calls' = LogCall(calls, "set_mode_input")
    /\ pc' = "set_pull_up"
    /\ UNCHANGED <<objectVars, pull, envVars, collectVars, parseVars, readVars,
                   result, mainVars>>

\* line 60
SetPullUp ==
    /\ pc = "set_pull_up"
    /\ pull' = "up"
    /\ calls' = LogCall(calls, "set_pull_up")
    /\ pc' = "collect_input"
    /\ UNCHANGED <<objectVars, mode, envVars, collectVars, parseVars, readVars,
                   result, mainVars>>

(***************************************************************************)
(* read(), lines 63-75: acquisition and decoding.                          *)
(***************************************************************************)
\* line 63: the whole sampling loop, on the line and the clock it meets
CollectInput ==
    /\ pc = "collect_input"
    /\ \E ln \in ReadLines, deadline \in Deadlines :
        data' = collect_input(ln, deadline)
    /\ calls' = LogCall(calls, "read")
    /\ pc' = "parse_data"
    /\ UNCHANGED <<objectVars, gpioVars, envVars, collectVars, parseVars,
                   pull_up_lengths, bits, the_bytes, checksum, result, mainVars>>

\* ParseData with the list of line 105 kept from one call to the next
ParseData_KeepsLengths ==
    /\ pc = "parse_data"
    /\ pull_up_lengths' =
           ParseLoop([ParseLocals EXCEPT !.lengths = lengths], data, 1, Len(data)).lengths
    /\ lengths' = pull_up_lengths'
    /\ pc' = "check_count"
    /\ UNCHANGED <<objectVars, gpioVars, calls, envVars, collectVars, state,
                   current_length, idx, data, bits, the_bytes, checksum, result,
                   mainVars>>

\* line 65
ParseData ==
    /\ pc = "parse_data"
    /\ pull_up_lengths' = parse_data_pull_up_lengths(data)
    /\ pc' = "check_count"
    /\ UNCHANGED <<objectVars, gpioVars, calls, envVars, collectVars, parseVars,
                   data, bits, the_bytes, checksum, result, mainVars>>

\* CheckCount with line 66 testing len(pull_up_lengths) < 40
CheckCount_OnlyFewer ==
    /\ pc = "check_count"
    /\ IF Len(pull_up_lengths) < PulseCount
       THEN /\ result' = Raised("DHT11MissingDataError")
            /\ pc' = "read_raised"
       ELSE /\ result' = result
            /\ pc' = "calculate_bits"
    /\ UNCHANGED <<objectVars, gpioVars, calls, envVars, collectVars, parseVars,
                   readVars, mainVars>>

\* CheckCount with lines 66-67 left out
CheckCount_Never ==
    /\ pc = "check_count"
    /\ result' = result
    /\ pc' = "calculate_bits"
    /\ UNCHANGED <<objectVars, gpioVars, calls, envVars, collectVars, parseVars,
                   readVars, mainVars>>

\* lines 66-67
CheckCount ==
    /\ pc = "check_count"
    /\ IF Len(pull_up_lengths) # PulseCount
       THEN /\ result' = Raised("DHT11MissingDataError")
            /\ pc' = "read_raised"
       ELSE /\ result' = result
            /\ pc' = "calculate_bits"
    /\ UNCHANGED <<objectVars, gpioVars, calls, envVars, collectVars, parseVars,
                   readVars, mainVars>>

\* line 68
CalculateBits ==
    /\ pc = "calculate_bits"
    /\ bits' = calculate_bits(pull_up_lengths)
    /\ pc' = "bits_to_bytes"
    /\ UNCHANGED <<objectVars, gpioVars, calls, envVars, collectVars, parseVars,
                   data, pull_up_lengths, the_bytes, checksum, result, mainVars>>

\* line 69
BitsToBytes ==
    /\ pc = "bits_to_bytes"
    /\ the_bytes' = bits_to_bytes(bits)
    /\ pc' = "calculate_checksum"
    /\ UNCHANGED <<objectVars, gpioVars, calls, envVars, collectVars, parseVars,
                   data, pull_up_lengths, bits, checksum, result, mainVars>>

\* line 70; bytes0[3] of a shorter list is an IndexError
CalculateChecksum ==
    /\ pc = "calculate_checksum"
    /\ IF Len(the_bytes) < 4
       THEN /\ result' = Raised("IndexError")
            /\ checksum' = checksum
            /\ pc' = "read_raised"
       ELSE /\ result' = result
            /\ checksum' = calculate_checksum(the_bytes)
            /\ pc' = "check_checksum"
    /\ UNCHANGED <<objectVars, gpioVars, calls, envVars, collectVars, parseVars,
                   data, pull_up_lengths, bits, the_bytes, mainVars>>

\* CheckChecksum with line 71 testing the_bytes[4] > checksum
CheckChecksum_GreaterOnly ==
    /\ pc = "check_checksum"
    /\ IF Len(the_bytes) < 5
       THEN /\ result' = Raised("IndexError")
            /\ pc' = "read_raised"
       ELSE IF the_bytes[5] > checksum
       THEN /\ result' = Raised("DHT11CRCError")
            /\ pc' = "read_raised"
       ELSE /\ result' = result
            /\ pc' = "build_reading"
    /\ UNCHANGED <<objectVars, gpioVars, calls, envVars, collectVars, parseVars,
                   readVars, mainVars>>

\* lines 71-72; the_bytes[4] of a shorter list is an IndexError
CheckChecksum ==
    /\ pc = "check_checksum"
    /\ IF Len(the_bytes) < 5
       THEN /\ result' = Raised("IndexError")
            /\ pc' = "read_raised"
       ELSE IF the_bytes[5] # checksum
       THEN /\ result' = Raised("DHT11CRCError")
            /\ pc' = "read_raised"
       ELSE /\ result' = result
            /\ pc' = "build_reading"
    /\ UNCHANGED <<objectVars, gpioVars, calls, envVars, collectVars, parseVars,
                   readVars, mainVars>>

\* lines 73-75
ReturnReading ==
    /\ pc = "build_reading"
    /\ result' = Reading(the_bytes, checksum)
    /\ pc' = "read_returned"
    /\ UNCHANGED <<objectVars, gpioVars, calls, envVars, collectVars, parseVars,
                   readVars, mainVars>>

(***************************************************************************)
(* The polling program (lines 184-203).                                    *)
(***************************************************************************)
\* lines 191-194: the tuple is unpacked and printed
PrintReading ==
    /\ pc = "read_returned"
    /\ DiscardLocals
    /\ pc' = "main_sleep"
    /\ UNCHANGED <<objectVars, gpioVars, calls, envVars, collectVars, parseVars,
                   result, mainVars>>

\* Except without the handler of lines 195-196: DHT11CRCError leaves the loop
Except_CrcPropagates ==
    /\ pc = "read_raised"
    /\ DiscardLocals
    /\ pc' = IF result.kind = "DHT11MissingDataError" THEN "main_sleep" ELSE "crashed"
    /\ UNCHANGED <<objectVars, gpioVars, calls, envVars, collectVars, parseVars,
                   result, mainVars>>

\* lines 195-198: the two handlers; any other exception leaves the program
Except ==
    /\ pc = "read_raised"
    /\ DiscardLocals
    /\ pc' = IF result.kind \in {"DHT11CRCError", "DHT11MissingDataError"}
             THEN "main_sleep" ELSE "crashed"
    /\ UNCHANGED <<objectVars, gpioVars, calls, envVars, collectVars, parseVars,
                   result, mainVars>>

\* line 199
MainSleep ==
    /\ pc = "main_sleep"
    /\ pc' = "main_try"
    /\ UNCHANGED <<objectVars, gpioVars, calls, envVars, collectVars, parseVars,
                   readVars, result, mainVars>>

\* the positions inside the try block of line 188
ReadPcs == {"set_mode_output", "write_1", "sleep_settle", "write_0", "sleep_trigger",
            "set_mode_input", "set_pull_up", "collect_input", "parse_data",
            "check_count", "calculate_bits", "bits_to_bytes", "calculate_checksum",
            "check_checksum", "build_reading", "read_returned", "read_raised"}

TryPcs == ReadPcs \cup {"main_try", "main_sleep"}

\* Ctrl-C inside the try block: control goes to line 200
KeyboardInterrupt ==
    /\ pc \in TryPcs
    /\ DiscardLocals
    /\ pc' = "interrupted"
    /\ UNCHANGED <<objectVars, gpioVars, calls, envVars, collectVars, parseVars,
                   result, mainVars>>

\* Close with the program going back to the loop after close()
Close_ThenLoops ==
    /\ pc = "interrupted"
    /\ pi' = "stopped"
    /\ closes' = closes + 1
    /\ pc' = "main_try"
    /\ UNCHANGED <<pin, gpioVars, calls, envVars, collectVars, parseVars, readVars,
                   result, reads>>

\* lines 201-203 and close (lines 181-182)
Close ==
    /\ pc = "interrupted"
    /\ pi' = "stopped"
    /\ closes' = closes + 1
    /\ pc' = "exit"
    /\ UNCHANGED <<pin, gpioVars, calls, envVars, collectVars, parseVars, readVars,
                   result, reads>>

Next ==
    \/ Construct
    \/ ReadCall
    \/ SetModeOutput
    \/ WriteHigh
    \/ SleepSettle
    \/ WriteLow
    \/ SleepTrigger
    \/ SetModeInput
    \/ SetPullUp
    \/ CollectInput
    \/ ParseData
    \/ CheckCount
    \/ CalculateBits
    \/ BitsToBytes
    \/ CalculateChecksum
    \/ CheckChecksum
    \/ ReturnReading
    \/ PrintReading
    \/ Except
    \/ MainSleep
    \/ KeyboardInterrupt
    \/ Close

Spec == Init /\ [][Next]_vars

(***************************************************************************)
(* The validation step of read() on its own (lines 70-75): read() stands   *)
(* at line 70 with the bytes decoded from the frame of five given bytes.   *)
(***************************************************************************)
\* read() at line `at` after capturing the frame of the bytes bs
ReadAt(at, bs) ==
    /\ pc = at
    /\ pin = PinNumber
    /\ pi = "connected"
    /\ mode = "input"
    /\ pull = "up"
    /\ calls = Append(WakeCalls, "read")
    /\ line = QuietLine
    /\ now = 0
    /\ start = 0
    /\ data = collect_input(FrameOfBytes(bs), LateDeadline)
    /\ unchanged_count = 0
    /\ last = LastUnset
    /\ state = STATE_INIT_PULL_DOWN
    /\ lengths = <<>>
    /\ current_length = 0
    /\ idx = 0
    /\ pull_up_lengths = parse_data_pull_up_lengths(data)
    /\ bits = calculate_bits(pull_up_lengths)
    /\ the_bytes = bits_to_bytes(bits)
    /\ checksum = 0
    /\ result = NoResult
    /\ reads = 1
    /\ closes = 0

InitValidate == \E bs \in ValidateFrames : ReadAt("calculate_checksum", bs)

NextValidate ==
    \/ CalculateChecksum
    \/ CheckChecksum
    \/ ReturnReading

SpecValidate == InitValidate /\ [][NextValidate]_vars

(***************************************************************************)
(* __parse_data_pull_up_lengths sample by sample: read() has called it at  *)
(* line 65 on a capture, which may be any nonempty sequence of samples.    *)
(***************************************************************************)
InitParse ==
    /\ pc = "parse_loop"
    /\ pin = PinNumber
    /\ pi = "connected"
    /\ mode = "input"
    /\ pull = "up"
    /\ calls = Append(WakeCalls, "read")
    /\ line = QuietLine
    /\ now = 0
    /\ start = 0
    /\ data \in SeqsUpTo(Bit, MaxRawLen) \ {<<>>}
    /\ unchanged_count = 0
    /\ last = LastUnset
    /\ state = ParseLocals.state
    /\ lengths = ParseLocals.lengths
    /\ current_length = ParseLocals.current_length
    /\ idx = 0
    /\ pull_up_lengths = <<>>
    /\ bits = <<>>
    /\ the_bytes = <<>>
    /\ checksum = 0
    /\ result = NoResult
    /\ reads = 1
    /\ closes = 0

\* lines 107-141: one iteration of the loop
ParseIter ==
    /\ pc = "parse_loop"
    /\ idx < Len(data)
    /\ LET p == ParseSample([state |-> state, lengths |-> lengths,
                             current_length |-> current_length], data[idx + 1])
       IN  /\ state' = p.state
           /\ lengths' = p.lengths
           /\ current_length' = p.current_length
    /\ idx' = idx + 1
    /\ pc' = "parse_loop"
    /\ UNCHANGED <<objectVars, gpioVars, calls, envVars, collectVars, readVars,
                   result, mainVars>>

\* line 142 and the assignment of line 65
ParseReturn ==
    /\ pc = "parse_loop"
    /\ idx = Len(data)
    /\ pull_up_lengths' = lengths
    /\ state' = ParseLocals.state
    /\ lengths' = ParseLocals.lengths
    /\ current_length' = ParseLocals.current_length
    /\ idx' = 0
    /\ pc' = "check_count"
    /\ UNCHANGED <<objectVars, gpioVars, calls, envVars, collectVars, data, bits,
                   the_bytes, checksum, result, mainVars>>

NextParse ==
    \/ ParseIter
    \/ ParseReturn

SpecParse == InitParse /\ [][NextParse]_vars

(***************************************************************************)
(* __collect_input sample by sample: read() has called it at line 63, the  *)
(* wake-up protocol done.  The line is made of runs of 1 or of             *)
(* max_unchanged_count + 1 equal samples and a tail; the clock stands      *)
(* still or advances by ClockStep during an iteration.                     *)
(***************************************************************************)
RunLens == {1, max_unchanged_count + 1}

\* the samples of runs of the lengths rs, alternating from level first
RunScript(rs, first) ==
    Flatten([i \in 1..Len(rs) |-> Repeat((first + i + 1) % 2, rs[i])])

CollectLines ==
    {Line(RunScript(rs, first), t) :
        rs \in SeqsUpTo(RunLens, MaxRuns), first \in Bit, t \in Tails}

InitCollect ==
    /\ pc = "collect_loop"
    /\ pin = PinNumber
    /\ pi = "connected"
    /\ mode = "input"
    /\ pull = "up"
    /\ calls = WakeCalls
    /\ line \in CollectLines
    /\ now = 0
    /\ start = 0
    /\ data = CollectLocals.data
    /\ unchanged_count = CollectLocals.unchanged_count
    /\ last = CollectLocals.last
    /\ state = STATE_INIT_PULL_DOWN
    /\ lengths = <<>>
    /\ current_length = 0
    /\ idx = 0
    /\ pull_up_lengths = <<>>
    /\ bits = <<>>
    /\ the_bytes = <<>>
    /\ checksum = 0
    /\ result = NoResult
    /\ reads = 1
    /\ closes = 0

\* lines 83-94: one iteration of the loop, during which the clock advances
\* by dt; after MaxStall samples the clock no longer stands still
CollectIter ==
    /\ pc = "collect_loop"
    /\ \E dt \in {0, ClockStep} :
        /\ dt = 0 => Len(data) < MaxStall
        /\ now' = now + dt
        /\ LET c == CollectBody([data |-> data, unchanged_count |-> unchanged_count,
                                 last |-> last, running |-> TRUE],
                                GpioRead(line, Len(data)), now' - start)
           IN  /\ data' = c.data
               /\ unchanged_count' = c.unchanged_count
               /\ last' = c.last
               /\ pc' = IF c.running THEN "collect_loop" ELSE "collect_return"
    /\ calls' = LogCall(calls, "read")
    /\ UNCHANGED <<objectVars, gpioVars, line, start, parseVars, pull_up_lengths,
                   bits, the_bytes, checksum, result, mainVars>>

\* line 95 and the assignment of line 63
CollectReturn ==
    /\ pc = "collect_return"
    /\ unchanged_count' = CollectLocals.unchanged_count
    /\ last' = CollectLocals.last
    /\ pc' = "parse_data"
    /\ UNCHANGED <<objectVars, gpioVars, calls, envVars, start, data, parseVars,
                   pull_up_lengths, bits, the_bytes, checksum, result, mainVars>>

NextCollect ==
    \/ CollectIter
    \/ CollectReturn

SpecCollect == InitCollect /\ [][NextCollect]_vars

\* the loop is not suspended for ever: the program keeps running
SpecCollectFair == SpecCollect /\ WF_vars(NextCollect)

(***************************************************************************)
(* From the sampling loop to the decoder: __collect_input sample by        *)
(* sample as above, then lines 65-68 of read() on what it returned.  The   *)
(* lines are those above and frames of PulseCount pulses of which one      *)
(* lasts max_unchanged_count + 1 or max_unchanged_count + 2 samples.       *)
(***************************************************************************)
\* PulseCount short pulses, pulse k replaced by one of n samples
PulsesWith(k, n) == [i \in 1..PulseCount |-> IF i = k THEN n ELSE ShortPulse]

AcquireLines ==
    CollectLines \cup
    {Line(FrameScript(PulsesWith(k, n)), "high") :
        k \in {1, PulseCount},
        n \in {max_unchanged_count + 1, max_unchanged_count + 2}}

InitAcquire ==
    /\ pc = "collect_loop"
    /\ pin = PinNumber
    /\ pi = "connected"
    /\ mode = "input"
    /\ pull = "up"
    /\ calls = WakeCalls
    /\ line \in AcquireLines
    /\ now = 0
    /\ start = 0
    /\ data = CollectLocals.data
    /\ unchanged_count = CollectLocals.unchanged_count
    /\ last = CollectLocals.last
    /\ state = STATE_INIT_PULL_DOWN
    /\ lengths = <<>>
    /\ current_length = 0
    /\ idx = 0
    /\ pull_up_lengths = <<>>
    /\ bits = <<>>
    /\ the_bytes = <<>>
    /\ checksum = 0
    /\ result = NoResult
    /\ reads = 1
    /\ closes = 0

NextAcquire ==
    \/ CollectIter
    \/ CollectReturn
    \/ ParseData
    \/ CheckCount
    \/ CalculateBits

SpecAcquire == InitAcquire /\ [][NextAcquire]_vars

(***************************************************************************)
(* __calculate_bits and __bits_to_bytes applied to a list of PulseCount    *)
(* pulse lengths (lines 68-69 of read(), or a caller of the two methods).  *)
(***************************************************************************)
\* the centres of the short and the long population of a frame, and how far
\* a pulse may lie from its centre
ShortCentre == 10
LongCentre == 70
MaxJitter == 1

\* the period of the patterns the lengths are laid out in
PatternPeriod == 3

\* lengths around and above the sentinel of line 145, and a triple with its
\* exact midpoint
DecodeVals == {0, 10, 40, 70, 999, 1000, 1001, 2000}

\* PulseCount lengths taken from the values vs in the periodic pattern p
Patterned(vs, p) ==
    [i \in 1..PulseCount |-> vs[p[((i - 1) % PatternPeriod) + 1]]]

PatternedLengths ==
    {Patterned(vs, p) : vs \in [1..3 -> DecodeVals],
                        p \in [1..PatternPeriod -> 1..3]}

DecodeByteVals == {0, 1, 128, 170, 255}

\* the jitter of pulse i: none, or one of two periodic patterns
Jitters ==
    {[i \in 1..PulseCount |-> 0],
     [i \in 1..PulseCount |-> ((i % 3) - 1) * MaxJitter],
     [i \in 1..PulseCount |-> (((i + 1) % 3) - 1) * MaxJitter]}

\* the pulses of the frame that carries the bytes bs: short for 0, long for 1
Framed(bs, jt) ==
    LET frame == BitsOfBytes(bs) IN
    [i \in 1..PulseCount |-> (IF frame[i] THEN LongCentre ELSE ShortCentre) + jt[i]]

FramedLengths == {Framed(bs, jt) : bs \in [1..5 -> DecodeByteVals], jt \in Jitters}

DecodeInputs == PatternedLengths \cup FramedLengths

InitDecode ==
    /\ pc = "calculate_bits"
    /\ pin = PinNumber
    /\ pi = "connected"
    /\ mode = "input"
    /\ pull = "up"
    /\ calls = Append(WakeCalls, "read")
    /\ line = QuietLine
    /\ now = 0
    /\ start = 0
    /\ data = <<>>
    /\ unchanged_count = 0
    /\ last = LastUnset
    /\ state = STATE_INIT_PULL_DOWN
    /\ lengths = <<>>
    /\ current_length = 0
    /\ idx = 0
    /\ pull_up_lengths \in DecodeInputs
    /\ bits = <<>>
    /\ the_bytes = <<>>
    /\ checksum = 0
    /\ result = NoResult
    /\ reads = 1
    /\ closes = 0

NextDecode ==
    \/ CalculateBits
    \/ BitsToBytes

SpecDecode == InitDecode /\ [][NextDecode]_vars

(***************************************************************************)
(* Properties of the validation step.                                      *)
(***************************************************************************)
\* the low 8 bits of the sum of the four data bytes
LowSum(bs) == (bs[1] + bs[2] + bs[3] + bs[4]) % 256

\* read() has returned or raised, its locals still in place
ReadEnded == pc \in {"read_returned", "read_raised"}

\* C1: whenever the five decoded bytes satisfy b4 = (b0+b1+b2+b3) & 0xFF,
\* read() ends with a reading whose temperature is b2 + b3/10 and whose
\* humidity is b0 + b1/10 (in tenths: 10*b2 + b3 and 10*b0 + b1).
C1_RoundTrip ==
    (ReadEnded /\ Len(the_bytes) = 5 /\ the_bytes[5] = LowSum(the_bytes))
        => /\ result.kind = "reading"
           /\ result.temperature = 10 * the_bytes[3] + the_bytes[4]
           /\ result.humidity = 10 * the_bytes[1] + the_bytes[2]

\* C3: whenever 40 pulse lengths were decoded into 5 bytes whose fifth is
\* not the low 8 bits of the sum of the first four, read() is past line 71
\* only by raising DHT11CRCError, with no reading; [60,0,25,0,86] raises it
\* and [60,0,25,0,85] returns humidity 60.0, temperature 25.0, checksum 85.
C3_MismatchRaisesCRC ==
    /\ (/\ pc \in {"build_reading", "read_returned", "read_raised"}
        /\ Len(pull_up_lengths) = PulseCount
        /\ Len(the_bytes) = 5
        /\ the_bytes[5] # LowSum(the_bytes))
            => (pc = "read_raised" /\ result = Raised("DHT11CRCError"))
    /\ (ReadEnded /\ the_bytes = <<60, 0, 25, 0, 86>>)
            => result = Raised("DHT11CRCError")
    /\ (ReadEnded /\ the_bytes = <<60, 0, 25, 0, 85>>)
            => result = [kind |-> "reading", temperature |-> 250,
                         humidity |-> 600, checksum |-> 85]

\* C3: read() has raised DHT11CRCError on the bytes [60,0,25,0,86]
C3_Witness ==
    /\ pc = "read_raised"
    /\ the_bytes = <<60, 0, 25, 0, 86>>
    /\ Len(pull_up_lengths) = PulseCount
    /\ result.kind = "DHT11CRCError"

(***************************************************************************)
(* Properties of the sampling loop.                                        *)
(***************************************************************************)
\* the last k samples of d exist and are equal
EndsWithRun(d, k) ==
    /\ Len(d) >= k
    /\ \A i \in (Len(d) - k + 1)..Len(d) : d[i] = d[Len(d)]

\* after the last sample taken, the value has stayed unchanged for more than
\* max_unchanged_count samples, or the time since `start` is beyond the ceiling
StopCondition ==
    \/ EndsWithRun(data, max_unchanged_count + 2)
    \/ now - start > TimeCeiling

C9_StopsExactlyWhenDue ==
    /\ pc = "collect_return" => StopCondition
    /\ (pc = "collect_loop" /\ data # <<>>) => ~StopCondition
    /\ pc \in {"collect_return", "parse_data"} => Len(data) >= 1

\* C9: the sampling loop appends each sample it reads to data, has stopped
\* exactly when, after the last sample, the value had stayed unchanged for
\* more than 100 samples or the elapsed time exceeded the ceiling (so it is
\* still running while neither holds), returns at least one sample, and,
\* the clock advancing, terminates.
C9_CollectTerminates ==
    /\ []C9_StopsExactlyWhenDue
    /\ [][pc = "collect_loop" => data' = Append(data, GpioRead(line, Len(data)))]_vars
    /\ <>(pc = "parse_data")

\* C9: the loop has stopped on the unchanged count, within the time ceiling,
\* after the line had changed
C9_Witness ==
    /\ pc = "collect_return"
    /\ EndsWithRun(data, max_unchanged_count + 2)
    /\ Len(data) > max_unchanged_count + 2
    /\ now - start <= TimeCeiling

(***************************************************************************)
(* Properties of the pulse parser.                                         *)
(***************************************************************************)
\* the first index from `from` on at which d holds v, Len(d) + 1 if none
FirstIndex(d, v, from) ==
    IF \E i \in from..Len(d) : d[i] = v
    THEN CHOOSE i \in from..Len(d) :
            d[i] = v /\ \A j \in from..(i - 1) : d[j] # v
    ELSE Len(d) + 1

\* where the data phase begins: the first 0 after the first 1 after the first 0
DataPhaseStart(d) == FirstIndex(d, 0, FirstIndex(d, 1, FirstIndex(d, 0, 1) + 1) + 1)

\* the first samples of the high intervals of the data phase that a 0 follows
ClosedHighStarts(d) ==
    {s \in (DataPhaseStart(d) + 1)..Len(d) :
        d[s] = 1 /\ d[s - 1] = 0 /\ FirstIndex(d, 0, s) <= Len(d)}

\* the elements of the set of integers S in increasing order
RECURSIVE Ascending(_)
Ascending(S) ==
    IF S = {} THEN <<>>
    ELSE LET least == CHOOSE x \in S : \A y \in S : x <= y
         IN  <<least>> \o Ascending(S \ {least})

\* the numbers of consecutive 1 samples of those intervals, in order
HighIntervalLengths(d) ==
    LET starts == Ascending(ClosedHighStarts(d))
    IN  [k \in 1..Len(starts) |-> FirstIndex(d, 0, starts[k]) - starts[k]]

\* C10: the pulse lengths recorded from the samples consumed so far are the
\* numbers of consecutive 1 samples of the high intervals of the data phase
\* that a 0 sample follows, in order (a trailing high interval gives none),
\* and so is the list returned; the duration counter grows by one per sample
\* and is reset to zero exactly on the DATA_PULL_UP to DATA_PULL_DOWN step.
C10_LengthsAreHighIntervals ==
    /\ [](pc = "parse_loop" => lengths = HighIntervalLengths(SubSeq(data, 1, idx)))
    /\ [](pc = "check_count" => pull_up_lengths = HighIntervalLengths(data))
    /\ [][(pc = "parse_loop" /\ pc' = "parse_loop") =>
            IF state = STATE_DATA_PULL_UP /\ state' = STATE_DATA_PULL_DOWN
            THEN current_length' = 0
            ELSE current_length' = current_length + 1]_vars

\* C10: a capture with two closed high intervals of different lengths and a
\* trailing open one has been parsed
C10_Witness ==
    /\ pc = "check_count"
    /\ data = <<0, 1, 0, 1, 1, 0, 1, 0, 1>>
    /\ pull_up_lengths = <<2, 1>>

(***************************************************************************)
(* Properties of read() and of the polling program.                        *)
(***************************************************************************)
\* read() is past line 65
AfterParse == pc \in {"check_count", "calculate_bits", "bits_to_bytes",
                      "calculate_checksum", "check_checksum", "build_reading",
                      "read_returned", "read_raised"}

\* read() is past the count check of line 66 without having raised
Decoding == pc \in {"calculate_bits", "bits_to_bytes", "calculate_checksum",
                    "check_checksum", "build_reading", "read_returned"}

\* C2: read() raises DHT11MissingDataError exactly when the parser's list
\* for this call does not hold exactly 40 entries: with fewer or with more
\* it raises, and with 40 it goes on to decode and never raises it.
C2_MissingIffNot40 ==
    /\ ReadEnded =>
        (result.kind = "DHT11MissingDataError" <=> Len(pull_up_lengths) # PulseCount)
    /\ Decoding => Len(pull_up_lengths) = PulseCount
    /\ AfterParse => pull_up_lengths = parse_data_pull_up_lengths(data)

\* C2: read() has raised DHT11MissingDataError on more than 40 pulse lengths
C2_Witness ==
    /\ pc = "read_raised"
    /\ Len(pull_up_lengths) > PulseCount
    /\ result.kind = "DHT11MissingDataError"

\* C4: a read() call ends in a reading, DHT11MissingDataError or
\* DHT11CRCError and in nothing else (no IndexError, no exception leaving
\* the polling program); nothing is raised before the count check of line
\* 66; bits are decoded, and DHT11CRCError is raised, only on exactly 40
\* pulse lengths.
C4_ThreeOutcomes ==
    /\ pc # "crashed"
    /\ pc = "read_returned" => result.kind = "reading"
    /\ pc = "read_raised" => result.kind \in {"DHT11MissingDataError", "DHT11CRCError"}
    /\ (pc \in ReadPcs \ {"read_returned", "read_raised"}) => result = NoResult
    /\ (ReadEnded /\ result.kind = "DHT11CRCError") => Len(pull_up_lengths) = PulseCount
    /\ (pc \in ReadPcs /\ (bits # <<>> \/ the_bytes # <<>>))
            => (Len(pull_up_lengths) = PulseCount /\ Len(bits) = PulseCount)
    /\ (pc \in ReadPcs /\ the_bytes # <<>>) => Len(the_bytes) = 5

\* C4: read() has raised DHT11CRCError on 40 pulse lengths
C4_Witness ==
    /\ pc = "read_raised"
    /\ result.kind = "DHT11CRCError"
    /\ Len(pull_up_lengths) = PulseCount
    /\ Len(the_bytes) = 5

\* the samples d take the parser into its fifth state: after the data phase
\* has begun, a 1 is sampled
ReachesFifthState(d) == FirstIndex(d, 1, DataPhaseStart(d) + 1) <= Len(d)

\* C5: when the capture does not take the parser through all five states
\* (a line constantly 1 or constantly 0, a capture that ends before the
\* first data high interval), the parser yields no pulse length and read()
\* goes from the count check nowhere but to raising DHT11MissingDataError.
C5_ShortCaptureIsMissingData ==
    (AfterParse /\ ~ReachesFifthState(data))
        => /\ pull_up_lengths = <<>>
           /\ pc \in {"check_count", "read_raised"}
           /\ pc = "read_raised" => result = Raised("DHT11MissingDataError")

\* C5: read() has raised DHT11MissingDataError on a line that the pull-up
\* held at 1 for the whole capture
C5_Witness ==
    /\ pc = "read_raised"
    /\ Len(data) = max_unchanged_count + 2
    /\ \A i \in 1..Len(data) : data[i] = 1
    /\ result = Raised("DHT11MissingDataError")

\* C6: when the backend is not connected, the constructor has raised
\* RuntimeError (neither of the two read errors), the program stands there,
\* and no backend call, line configuration or read() has happened.
C6_SetupErrorIsFinal ==
    /\ pi = "unconnected" =>
        /\ pc = "setup_error"
        /\ result = Raised("RuntimeError")
        /\ calls = <<>>
        /\ mode = "unset"
        /\ pull = "off"
        /\ reads = 0
        /\ data = <<>>
    /\ pc = "setup_error" => pi = "unconnected"
    /\ result.kind = "RuntimeError" => pc = "setup_error"

\* C6: construction has failed
C6_Witness == pc = "setup_error" /\ pi = "unconnected" /\ result.kind = "RuntimeError"

\* C7: close() is called at most once; the program has left the loop by the
\* interrupt exactly when it has called close() once, the handle stopped;
\* the step after the interrupt is the close(), and after close() no read()
\* is issued and no second close() made.
C7_ClosedExactlyOnce ==
    /\ [](closes <= 1)
    /\ [](pc = "exit" <=> closes = 1)
    /\ [](pi = "stopped" <=> closes = 1)
    /\ [][pc = "interrupted" => (closes' = 1 /\ pc' = "exit")]_vars
    /\ [][closes >= 1 => (reads' = reads /\ closes' = closes /\ calls' = calls)]_vars

\* C7: the loop was ended after a read() and close() was called
C7_Witness == pc = "exit" /\ closes = 1 /\ reads >= 1 /\ pi = "stopped"

\* the backend calls read() has made when it stands at position at
CallsAt(at) ==
    LET all == Append(WakeCalls, "read")
        done == CASE at = "set_mode_output" -> 0
                  [] at = "write_1" -> 1
                  [] at = "sleep_settle" -> 2
                  [] at = "write_0" -> 3
                  [] at = "sleep_trigger" -> 4
                  [] at = "set_mode_input" -> 5
                  [] at = "set_pull_up" -> 6
                  [] at = "collect_input" -> 7
                  [] OTHER -> 8
    IN  SubSeq(all, 1, done)

\* C8: the backend calls of a read() call are, in this order and once each,
\* set output, write 1, settle sleep, write 0, trigger sleep, set input, set
\* pull-up, then the sampling; the line is in output mode during the writes
\* and in input mode with the pull-up from the sampling on; and a read()
\* that has returned or raised has made exactly these calls, no second
\* wake-up or sampling.
C8_WakeProtocolOrder ==
    /\ pc \in ReadPcs => calls = CallsAt(pc)
    /\ pc = "main_sleep" => calls = Append(WakeCalls, "read")
    /\ pc \in {"write_1", "sleep_settle", "write_0", "sleep_trigger", "set_mode_input"}
            => mode = "output"
    /\ (pc \in ReadPcs /\ Len(calls) >= 7) => (mode = "input" /\ pull = "up")
    /\ (pc \in ReadPcs /\ data # <<>>) => calls = Append(WakeCalls, "read")

\* C8: a failed read() has made the calls of one wake-up and one sampling
C8_Witness ==
    /\ pc = "read_raised"
    /\ result.kind = "DHT11CRCError"
    /\ calls = <<"set_mode_output", "write_1", "sleep_settle", "write_0",
                 "sleep_trigger", "set_mode_input", "set_pull_up", "read">>
    /\ mode = "input"

(***************************************************************************)
(* Properties of the parser's state machine.                               *)
(***************************************************************************)
\* one iteration of the parser's loop: a step inside the loop
ParserStep == pc = "parse_loop" /\ pc' = "parse_loop"

\* the transitions of the machine
Transitions ==
    {<<STATE_INIT_PULL_DOWN, STATE_INIT_PULL_UP>>,
     <<STATE_INIT_PULL_UP, STATE_DATA_FIRST_PULL_DOWN>>,
     <<STATE_DATA_FIRST_PULL_DOWN, STATE_DATA_PULL_UP>>,
     <<STATE_DATA_PULL_UP, STATE_DATA_PULL_DOWN>>,
     <<STATE_DATA_PULL_DOWN, STATE_DATA_PULL_UP>>}

InitStates == {STATE_INIT_PULL_DOWN, STATE_INIT_PULL_UP}

DataStates == {STATE_DATA_FIRST_PULL_DOWN, STATE_DATA_PULL_UP, STATE_DATA_PULL_DOWN}

\* C11: the parser starts in INIT_PULL_DOWN; an iteration leaves the state
\* alone or takes one of the five transitions, so the state never goes back
\* except from DATA_PULL_DOWN to DATA_PULL_UP, and no init state follows a
\* data state; an iteration leaves lengths alone or appends one entry.
C11_StateNeverRegresses ==
    /\ []((pc = "parse_loop" /\ idx = 0) =>
            (state = STATE_INIT_PULL_DOWN /\ lengths = <<>>))
    /\ [](pc = "parse_loop" => state \in InitStates \cup DataStates)
    /\ [][ParserStep => (state' = state \/ <<state, state'>> \in Transitions)]_vars
    /\ [][(ParserStep /\ state \in DataStates) => state' \in DataStates]_vars
    /\ [][ParserStep =>
            \/ lengths' = lengths
            \/ /\ Len(lengths') = Len(lengths) + 1
               /\ SubSeq(lengths', 1, Len(lengths)) = lengths]_vars

\* C11: the machine has gone round the DATA_PULL_UP / DATA_PULL_DOWN cycle
\* twice and stands in DATA_PULL_DOWN again
C11_Witness ==
    /\ pc = "parse_loop"
    /\ state = STATE_DATA_PULL_DOWN
    /\ Len(lengths) = 2

\* the sample that state st waits for
Qualifying(st) ==
    CASE st = STATE_INIT_PULL_DOWN -> 0
      [] st = STATE_INIT_PULL_UP -> 1
      [] st = STATE_DATA_FIRST_PULL_DOWN -> 0
      [] st = STATE_DATA_PULL_UP -> 1
      [] st = STATE_DATA_PULL_DOWN -> 0

\* the state that follows st
Successor(st) ==
    CASE st = STATE_INIT_PULL_DOWN -> STATE_INIT_PULL_UP
      [] st = STATE_INIT_PULL_UP -> STATE_DATA_FIRST_PULL_DOWN
      [] st = STATE_DATA_FIRST_PULL_DOWN -> STATE_DATA_PULL_UP
      [] st = STATE_DATA_PULL_UP -> STATE_DATA_PULL_DOWN
      [] st = STATE_DATA_PULL_DOWN -> STATE_DATA_PULL_UP

\* C12: an iteration on a sample the state does not wait for leaves the
\* state unchanged, and an iteration on the sample it waits for moves it to
\* the following state and no further, however many samples came before;
\* each iteration consumes exactly one sample.
C12_AdvancesOnQualifyingSample ==
    [][ParserStep =>
        /\ idx' = idx + 1
        /\ state' = IF data[idx + 1] = Qualifying(state)
                    THEN Successor(state) ELSE state]_vars

\* C12: after two samples it did not wait for, INIT_PULL_DOWN was left on the
\* first 0, and after two more, INIT_PULL_UP on the first 1
C12_Witness ==
    /\ pc = "parse_loop"
    /\ idx = 6
    /\ SubSeq(data, 1, 6) = <<1, 1, 0, 0, 0, 1>>
    /\ state = STATE_DATA_FIRST_PULL_DOWN

(***************************************************************************)
(* Properties of the bit decoder and the byte packer.                      *)
(***************************************************************************)
Range(f) == {f[i] : i \in DOMAIN f}

\* the least and the greatest entry of a nonempty list
SeqMin(ls) == CHOOSE m \in Range(ls) : \A x \in Range(ls) : m <= x

SeqMax(ls) == CHOOSE m \in Range(ls) : \A x \in Range(ls) : m >= x

\* C13: for every list of 40 non-negative lengths, of any magnitude, the
\* decoder's shortest is the minimum and its longest the maximum, and bit i
\* is true exactly when lengths[i] > shortest + (longest - shortest) / 2
\* (doubled: 2 * lengths[i] > min + max); with 40 equal lengths no bit is
\* true.
C13_DecodesAgainstMidpoint ==
    (pc = "bits_to_bytes" /\ Len(pull_up_lengths) = PulseCount) =>
        /\ shortest_pull_up(pull_up_lengths) = SeqMin(pull_up_lengths)
        /\ longest_pull_up(pull_up_lengths) = SeqMax(pull_up_lengths)
        /\ Len(bits) = PulseCount
        /\ \A i \in 1..PulseCount :
               bits[i] <=> (2 * pull_up_lengths[i] >
                               SeqMin(pull_up_lengths) + SeqMax(pull_up_lengths))
        /\ (SeqMin(pull_up_lengths) = SeqMax(pull_up_lengths)) =>
               \A i \in 1..PulseCount : ~bits[i]

\* the value of the 8 bits from bit 8k on, most significant first (k from 0)
RECURSIVE WeightedFrom(_, _, _)
WeightedFrom(bs, k, j) ==
    IF j > 7 THEN 0
    ELSE (IF bs[8 * k + j + 1] THEN 2 ^ (7 - j) ELSE 0) + WeightedFrom(bs, k, j + 1)

\* every length lies in the short or in the long population
ShortLengths == (ShortCentre - MaxJitter)..(ShortCentre + MaxJitter)

LongLengths == (LongCentre - MaxJitter)..(LongCentre + MaxJitter)

WellSeparated(ls) == \A i \in 1..Len(ls) : ls[i] \in ShortLengths \cup LongLengths

\* the bytes of the bit pattern the lengths ls were laid out in
PatternBytes(ls) ==
    [k \in 1..5 |-> WeightedFrom([i \in 1..Len(ls) |-> ls[i] \in LongLengths], k - 1, 0)]

\* 40 bits are packed into 5 bytes in 0..255, byte k the value of bits
\* 8k..8k+7 with the most significant first
PacksMsbFirst ==
    (pc = "calculate_checksum" /\ Len(bits) = PulseCount) =>
        /\ Len(the_bytes) = 5
        /\ \A k \in 1..5 : /\ the_bytes[k] \in 0..255
                           /\ the_bytes[k] = WeightedFrom(bits, k - 1, 0)

\* C14: 40 bits are packed into 5 bytes in 0..255, byte k the value of bits
\* 8k..8k+7 with the most significant first (the accumulator restarts at 0
\* after each byte); and decoding then packing 40 lengths made of well
\* separated short and long pulses, both kinds occurring, gives the bytes of
\* the bit pattern the pulses were laid out in.
C14_PackAndRoundTrip ==
    /\ PacksMsbFirst
    /\ (/\ pc = "calculate_checksum"
        /\ WellSeparated(pull_up_lengths)
        /\ \E i \in 1..PulseCount : pull_up_lengths[i] \in ShortLengths
        /\ \E i \in 1..PulseCount : pull_up_lengths[i] \in LongLengths) =>
           the_bytes = PatternBytes(pull_up_lengths)

\* C14: a frame of short and long pulses was decoded and packed into bytes
\* that are neither all zero nor all equal
C14_Witness ==
    /\ pc = "calculate_checksum"
    /\ WellSeparated(pull_up_lengths)
    /\ the_bytes = <<170, 1, 128, 0, 255>>
    /\ pull_up_lengths[1] # LongCentre

(***************************************************************************)
(* Properties of the polling loop.                                         *)
(***************************************************************************)
\* the three outcomes of read() the loop deals with
LoopOutcomes == {"reading", "DHT11CRCError", "DHT11MissingDataError"}

\* C15: after a reading, a checksum error or a missing-data error the loop
\* goes to its delay and from the delay to the next read(), unless Ctrl-C
\* arrives; a read() starts only from the top of the loop, when no read() is
\* under way; and close() is called only after Ctrl-C, never by a step taken
\* because read() raised.
C15_ErrorsDoNotEndPolling ==
    /\ [][(ReadEnded /\ result.kind \in LoopOutcomes) =>
            (pc' = "main_sleep" \/ KeyboardInterrupt)]_vars
    /\ [][pc = "main_sleep" => (pc' = "main_try" \/ KeyboardInterrupt)]_vars
    /\ [][pc = "main_try" => (ReadCall \/ KeyboardInterrupt)]_vars
    /\ []((pc = "main_try" /\ reads < MaxReads) => ENABLED ReadCall)
    /\ [][reads' # reads =>
            (pc = "main_try" /\ pc \notin ReadPcs /\ reads' = reads + 1)]_vars
    /\ [][pc' = "interrupted" => KeyboardInterrupt]_vars
    /\ [][(closes' # closes \/ pi' = "stopped") => pc = "interrupted"]_vars

\* C15: the first read() raised DHT11CRCError, the loop has slept and stands
\* at the top again
C15_Witness ==
    /\ pc = "main_try"
    /\ reads = 1
    /\ result.kind = "DHT11CRCError"

(***************************************************************************)
(* read() from one call to the next.                                       *)
(***************************************************************************)
\* what lines 65-75 make of the capture d when every local starts afresh
OutcomeOf(d) ==
    LET ls == parse_data_pull_up_lengths(d) IN
    IF Len(ls) # PulseCount THEN Raised("DHT11MissingDataError")
    ELSE LET decoded == bits_to_bytes(calculate_bits(ls))
             sum == calculate_checksum(decoded)
         IN  IF decoded[5] # sum THEN Raised("DHT11CRCError")
             ELSE Reading(decoded, sum)

\* read() stands before its sampling loop
BeforeCollect == pc \in {"set_mode_output", "write_1", "sleep_settle", "write_0",
                         "sleep_trigger", "set_mode_input", "set_pull_up",
                         "collect_input"}

\* C16: whatever the earlier calls of read() did, a call ends with the
\* outcome that the samples of this call alone determine; in every call the
\* sample list, the unchanged counter, the parser's state, its duration
\* counter and its list of lengths start from their initial values; and
\* read() leaves pin and the backend handle as they were.
C16_ReadKeepsNoState ==
    /\ [](ReadEnded => result = OutcomeOf(data))
    /\ [](BeforeCollect =>
            /\ data = <<>>
            /\ pull_up_lengths = <<>>
            /\ result = NoResult
            /\ unchanged_count = CollectLocals.unchanged_count
            /\ last = CollectLocals.last
            /\ state = ParseLocals.state
            /\ current_length = ParseLocals.current_length
            /\ lengths = ParseLocals.lengths)
    /\ [][(pc \in ReadPcs) => (pin' = pin /\ pi' = pi)]_vars
    /\ [](pc \in ReadPcs => (pin = PinNumber /\ pi = "connected"))

\* C16: the second read() has returned a reading
C16_Witness ==
    /\ reads = 2
    /\ pc = "read_returned"
    /\ result.kind = "reading"
    /\ result = OutcomeOf(data)

(***************************************************************************)
(* The bound that the sampling loop puts on the decoder's input.           *)
(***************************************************************************)
\* the longest run of equal samples a capture can hold, and the longest
\* pulse the parser can record from one
LongestRun == max_unchanged_count + 2

LongestPulse == max_unchanged_count + 1

\* C17: the sample list grows by one sample at a time and never ends with
\* more than 102 equal samples, so it holds no run of more than 102; every
\* pulse length parsed from it lies in 1..101; and so, when read() decodes,
\* every length is below the sentinel 1000 and the decoder's shortest and
\* longest are the minimum and the maximum of the lengths.
C17_AcquiredPulsesAreBounded ==
    /\ [](~EndsWithRun(data, LongestRun + 1))
    /\ [][data' # data =>
            (Len(data') = Len(data) + 1 /\ SubSeq(data', 1, Len(data)) = data)]_vars
    /\ [](AfterParse =>
            \A i \in 1..Len(pull_up_lengths) : pull_up_lengths[i] \in 1..LongestPulse)
    /\ [](pc = "bits_to_bytes" =>
            /\ SeqMax(pull_up_lengths) < ShortestSentinel
            /\ shortest_pull_up(pull_up_lengths) = SeqMin(pull_up_lengths)
            /\ longest_pull_up(pull_up_lengths) = SeqMax(pull_up_lengths))

\* C17: a capture whose 40 pulses include one of 101 samples was parsed and
\* decoded
C17_Witness ==
    /\ pc = "bits_to_bytes"
    /\ Len(pull_up_lengths) = PulseCount
    /\ longest_pull_up(pull_up_lengths) = LongestPulse
    /\ shortest_pull_up(pull_up_lengths) = ShortPulse

(***************************************************************************)
(* read() on a capture whose pulses all have one length.                   *)
(***************************************************************************)
\* the parser has returned 40 lengths that are all equal
EqualPulses ==
    /\ Len(pull_up_lengths) = PulseCount
    /\ \A i, j \in 1..PulseCount : pull_up_lengths[i] = pull_up_lengths[j]

\* C18: when the capture yields 40 equal pulse lengths, read() raises
\* nothing: every bit is false, the 5 bytes are 0, the checksum is 0, and
\* read() returns temperature 0, humidity 0 and checksum 0.
C18_EqualPulsesReadAsZero ==
    (AfterParse /\ EqualPulses) =>
        /\ pc # "read_raised"
        /\ (pc \notin {"check_count", "calculate_bits"}) =>
               (Len(bits) = PulseCount /\ \A i \in 1..PulseCount : ~bits[i])
        /\ (pc \in {"calculate_checksum", "check_checksum", "build_reading",
                    "read_returned"}) => the_bytes = <<0, 0, 0, 0, 0>>
        /\ (pc \in {"check_checksum", "build_reading", "read_returned"}) =>
               checksum = 0
        /\ pc = "read_returned" =>
               result = [kind |-> "reading", temperature |-> 0, humidity |-> 0,
                         checksum |-> 0]

\* C18: read() has returned on a capture of 40 equal pulses
C18_Witness ==
    /\ pc = "read_returned"
    /\ EqualPulses
    /\ result.kind = "reading"
    /\ result.temperature = 0
    /\ result.humidity = 0

====
